---- MODULE Spec2Model ----
(***************************************************************************)
(* NexusTask backend: project/task permission resolution                   *)
(* (services/permissions.py, api/tasks.py, services/task_service.py,       *)
(* utils/decorators.py), project membership (services/project_service.py), *)
(* JWT revocation and refresh (core/token_blacklist.py, api/auth.py,       *)
(* app.py), also with several threads on the in-process map, password      *)
(* change and reset (api/auth.py, services/auth_service.py) and account    *)
(* lockout (api/auth.py).                                                  *)
(*                                                                         *)
(* Token time is counted in hours, login attempts in minutes.  Absent rows *)
(* / None are 0 for ids and "none" for roles.                              *)
(***************************************************************************)
EXTENDS Integers, FiniteSets, Sequences, TLC

\* ------------------------------------------------------------------------
\* Bounds of the model
\* ------------------------------------------------------------------------
NumUsers == 3
MaxProjects == 1
MaxTasks == 1
MaxMembers == 2
MaxJti == 1
MaxTime == 2
MaxTtl == 1
MaxTz == 1
NumPasswords == 2
MaxClock == 20
ClockStep == 5
MaxAttempts == 7
MaxResetTokens == 2
NumThreads == 2

Users == 1..NumUsers
ProjectIds == 1..MaxProjects
TaskIds == 1..MaxTasks
\* ids a caller may pass: every row id plus one id that no table holds
CallProjectIds == 1..(MaxProjects + 1)
CallTaskIds == 1..(MaxTasks + 1)
Jtis == 1..MaxJti
\* the server's local time zone, as hours east of UTC
TzOffsets == (0 - MaxTz)..MaxTz
\* passwords a user may choose; all tokens of the revocation part belong to
\* one account
Passwords == 1..NumPasswords
\* the request-handling threads of one process
Threads == 1..NumThreads
\* PasswordResetToken.id
ResetIds == 1..MaxResetTokens
\* the instants, in minutes, at which login attempts are made
ClockTimes == {t \in 0..MaxClock : t % ClockStep = 0}

\* ProjectMember.role values (models_legacy.py, ProjectMember docstring)
Roles == {"admin", "member"}
\* Task.status values used by the handlers' completed_at logic
Statuses == {"todo", "done"}

VARIABLES
    project_owner,   \* Project table: id -> owner_id, 0 when no such row
    project_member,  \* ProjectMember table: <<project_id, user_id>> -> role, "none" when no row
    task,            \* Task table: id -> row, NoTask when no such row
    last,            \* the most recent call and what it returned
    now,             \* the true time (UTC)
    tz,              \* the server's time zone offset
    has_redis,       \* _get_redis_client() finds a client: an application
                     \* context exists and app.extensions holds 'redis'
    redis_up,        \* calls on that client succeed
    redis_store,     \* token_blacklist:<jti> keys: jti -> expiry, NoEntry when no key
    memory_store,    \* TokenBlacklist._memory_store: jti -> expires_at, NoEntry when no key
    token_exp,       \* access tokens issued: jti -> exp claim, NoEntry when not issued
    revoked,         \* jtis of tokens whose logout succeeded and that were not removed since
    added,           \* per jti, the latest add() with no remove() since: NoAdd if none
    password,        \* User.password_hash of the account, as the password it hashes
    reset_token,     \* the account's PasswordResetToken rows: id -> row, NoReset when no such row
    stale,           \* jtis of tokens issued before the latest successful password change
    clock,           \* the time in minutes, for the login attempts of one email
    account,         \* the User row of that email: "none", "active" or "disabled"
    login_attempt,   \* LoginAttempt rows of that email: <<timestamp, success>> -> number of rows
    removed,         \* jtis for which remove() returned True, with no add() since
    thread           \* per thread, its position inside a TokenBlacklist call and the call's locals

dbvars == <<project_owner, project_member, task>>
tokenvars == <<now, tz, has_redis, redis_up, redis_store, memory_store,
               token_exp, revoked, added, password, reset_token, stale,
               clock, account, login_attempt, removed, thread>>
vars == <<project_owner, project_member, task, last, now, tz, has_redis,
          redis_up, redis_store, memory_store, token_exp, revoked, added,
          password, reset_token, stale, clock, account, login_attempt,
          removed, thread>>

NoTask == [project_id |-> 0, created_by |-> 0, assigned_to |-> 0,
           status |-> "none", completed_at |-> FALSE]

TaskRows == [project_id : ProjectIds, created_by : Users,
             assigned_to : Users \cup {0}, status : Statuses,
             completed_at : BOOLEAN]

\* ------------------------------------------------------------------------
\* Return values.  A call either returns or raises; `exc` tells which.
\* ------------------------------------------------------------------------
Ret3(a, o, r) == [exc |-> FALSE, allowed |-> a, obj |-> o, role |-> r]
Ret2(a, o) == [exc |-> FALSE, allowed |-> a, obj |-> o, role |-> "none"]
RetB(b) == [exc |-> FALSE, allowed |-> b, obj |-> 0, role |-> "none"]
Raised == [exc |-> TRUE, allowed |-> FALSE, obj |-> 0, role |-> "none"]

\* ------------------------------------------------------------------------
\* ORM queries
\* ------------------------------------------------------------------------
\* Project.query.get(project_id): the owner_id of the row, 0 for None
ProjectGet(project_id) ==
    IF project_id \in ProjectIds THEN project_owner[project_id] ELSE 0

\* ProjectMember.query.filter_by(project_id, user_id).first(): role or "none"
MemberFirst(project_id, user_id) ==
    IF project_id \in ProjectIds THEN project_member[<<project_id, user_id>>]
    ELSE "none"

\* Task.query.get(task_id)
TaskGet(task_id) ==
    IF task_id \in TaskIds THEN task[task_id] ELSE NoTask

\* ------------------------------------------------------------------------
\* services/permissions.py
\* `err` is the ordinal of the datastore query that raises (0: none does).
\* ------------------------------------------------------------------------
\* variant: the membership row is consulted before owner_id
check_project_access_try_member_first(project_id, user_id, err) ==
    IF err = 1 THEN Raised
    ELSE IF ProjectGet(project_id) = 0 THEN Ret3(FALSE, 0, "none")
    ELSE IF err = 2 THEN Raised
    ELSE IF MemberFirst(project_id, user_id) # "none"
         THEN Ret3(TRUE, project_id, MemberFirst(project_id, user_id))
    ELSE IF ProjectGet(project_id) = user_id THEN Ret3(TRUE, project_id, "owner")
    ELSE Ret3(FALSE, 0, "none")

\* variant: every membership row is reported with the default role
check_project_access_try_default_role(project_id, user_id, err) ==
    IF err = 1 THEN Raised
    ELSE IF ProjectGet(project_id) = 0 THEN Ret3(FALSE, 0, "none")
    ELSE IF ProjectGet(project_id) = user_id THEN Ret3(TRUE, project_id, "owner")
    ELSE IF err = 2 THEN Raised
    ELSE IF MemberFirst(project_id, user_id) # "none"
         THEN Ret3(TRUE, project_id, "member")
    ELSE Ret3(FALSE, 0, "none")

\* variant: a denied caller still gets the project that was found
check_project_access_try_leak(project_id, user_id, err) ==
    IF err = 1 THEN Raised
    ELSE IF ProjectGet(project_id) = 0 THEN Ret3(FALSE, 0, "none")
    ELSE IF ProjectGet(project_id) = user_id THEN Ret3(TRUE, project_id, "owner")
    ELSE IF err = 2 THEN Raised
    ELSE IF MemberFirst(project_id, user_id) # "none"
         THEN Ret3(TRUE, project_id, MemberFirst(project_id, user_id))
    ELSE Ret3(FALSE, project_id, "none")

check_project_access_try(project_id, user_id, err) ==
    IF err = 1 THEN Raised
    ELSE IF ProjectGet(project_id) = 0 THEN Ret3(FALSE, 0, "none")
    ELSE IF ProjectGet(project_id) = user_id THEN Ret3(TRUE, project_id, "owner")
    ELSE IF err = 2 THEN Raised
    ELSE IF MemberFirst(project_id, user_id) # "none"
         THEN Ret3(TRUE, project_id, MemberFirst(project_id, user_id))
    ELSE Ret3(FALSE, 0, "none")

check_project_access(project_id, user_id, err) ==
    LET r == check_project_access_try(project_id, user_id, err)
    IN  IF r.exc THEN Ret3(FALSE, 0, "none") ELSE r

\* variant: the membership query lacks the role='admin' filter
check_project_admin_try_any_member(project_id, user_id, err) ==
    IF err = 1 THEN Raised
    ELSE IF ProjectGet(project_id) = 0 THEN RetB(FALSE)
    ELSE IF ProjectGet(project_id) = user_id THEN RetB(TRUE)
    ELSE IF err = 2 THEN Raised
    ELSE RetB(MemberFirst(project_id, user_id) # "none")

check_project_admin_try(project_id, user_id, err) ==
    IF err = 1 THEN Raised
    ELSE IF ProjectGet(project_id) = 0 THEN RetB(FALSE)
    ELSE IF ProjectGet(project_id) = user_id THEN RetB(TRUE)
    ELSE IF err = 2 THEN Raised
    ELSE RetB(MemberFirst(project_id, user_id) = "admin")

\* variant: the except clause grants
check_project_admin_fail_open(project_id, user_id, err) ==
    LET r == check_project_admin_try(project_id, user_id, err)
    IN  IF r.exc THEN RetB(TRUE) ELSE r

check_project_admin(project_id, user_id, err) ==
    LET r == check_project_admin_try(project_id, user_id, err)
    IN  IF r.exc THEN RetB(FALSE) ELSE r

\* the nested call sees the queries after the caller's own Task query
InnerErr(err) == IF err = 0 THEN 0 ELSE err - 1

\* variant: the task's creator is let in whatever the project says
check_task_access_try_creator(task_id, user_id, err) ==
    IF err = 1 THEN Raised
    ELSE IF TaskGet(task_id) = NoTask THEN Ret3(FALSE, 0, "none")
    ELSE IF TaskGet(task_id).created_by = user_id
         THEN Ret3(TRUE, task_id, "member")
    ELSE LET p == check_project_access(TaskGet(task_id).project_id, user_id,
                                       InnerErr(err))
         IN  IF p.exc THEN Raised
             ELSE IF p.allowed THEN Ret3(TRUE, task_id, p.role)
             ELSE Ret3(FALSE, 0, "none")

check_task_access_try(task_id, user_id, err) ==
    IF err = 1 THEN Raised
    ELSE IF TaskGet(task_id) = NoTask THEN Ret3(FALSE, 0, "none")
    ELSE LET p == check_project_access(TaskGet(task_id).project_id, user_id,
                                       InnerErr(err))
         IN  IF p.exc THEN Raised
             ELSE IF p.allowed THEN Ret3(TRUE, task_id, p.role)
             ELSE Ret3(FALSE, 0, "none")

check_task_access(task_id, user_id, err) ==
    LET r == check_task_access_try(task_id, user_id, err)
    IN  IF r.exc THEN Ret3(FALSE, 0, "none") ELSE r

\* variant: project access, not project administration, is asked for
can_modify_task_try_any_member(task_id, user_id, err) ==
    IF err = 1 THEN Raised
    ELSE IF TaskGet(task_id) = NoTask THEN Ret2(FALSE, 0)
    ELSE IF \/ TaskGet(task_id).created_by = user_id
            \/ TaskGet(task_id).assigned_to = user_id
         THEN Ret2(TRUE, task_id)
    ELSE LET a == check_project_access(TaskGet(task_id).project_id, user_id,
                                       InnerErr(err))
         IN  IF a.exc THEN Raised
             ELSE IF a.allowed THEN Ret2(TRUE, task_id)
             ELSE Ret2(FALSE, 0)

can_modify_task_try(task_id, user_id, err) ==
    IF err = 1 THEN Raised
    ELSE IF TaskGet(task_id) = NoTask THEN Ret2(FALSE, 0)
    ELSE IF \/ TaskGet(task_id).created_by = user_id
            \/ TaskGet(task_id).assigned_to = user_id
         THEN Ret2(TRUE, task_id)
    ELSE LET a == check_project_admin(TaskGet(task_id).project_id, user_id,
                                      InnerErr(err))
         IN  IF a.exc THEN Raised
             ELSE IF a.allowed THEN Ret2(TRUE, task_id)
             ELSE Ret2(FALSE, 0)

can_modify_task(task_id, user_id, err) ==
    LET r == can_modify_task_try(task_id, user_id, err)
    IN  IF r.exc THEN Ret2(FALSE, 0) ELSE r

\* ------------------------------------------------------------------------
\* api/tasks.py: the handlers' own check_task_access
\* ------------------------------------------------------------------------
api_check_task_access_try(task_id, user_id, err) ==
    IF err = 1 THEN Raised
    ELSE IF TaskGet(task_id) = NoTask THEN Ret3(FALSE, 0, "none")
    ELSE LET p == check_project_access(TaskGet(task_id).project_id, user_id,
                                       InnerErr(err))
         IN  IF p.exc THEN Raised
             ELSE Ret3(p.allowed, task_id, p.role)

api_check_task_access(task_id, user_id, err) ==
    LET r == api_check_task_access_try(task_id, user_id, err)
    IN  IF r.exc THEN Ret3(FALSE, 0, "none") ELSE r

\* ------------------------------------------------------------------------
\* services/project_service.py: ProjectPermissionService.check_access
\* returns (has_access, role); no exception handling of its own
\* ------------------------------------------------------------------------
PermissionService_check_access(project_id, user_id) ==
    IF ProjectGet(project_id) = 0 THEN Ret3(FALSE, 0, "none")
    ELSE IF ProjectGet(project_id) = user_id THEN Ret3(TRUE, 0, "owner")
    ELSE IF MemberFirst(project_id, user_id) # "none"
         THEN Ret3(TRUE, 0, MemberFirst(project_id, user_id))
    ELSE Ret3(FALSE, 0, "none")

\* ------------------------------------------------------------------------
\* Request payloads of the task update operations
\* ------------------------------------------------------------------------
Absent == -1
UpdateData == [status : Statuses \cup {"absent"},
               assigned_to : Users \cup {0, Absent}]

\* the fields a payload sets on a row; completed_at is the caller's business
SetFields(row, data) ==
    [row EXCEPT !.status = IF data.status = "absent" THEN @ ELSE data.status,
                !.assigned_to = IF data.assigned_to = Absent THEN @
                                ELSE data.assigned_to]

\* api/tasks.py update_task: completed_at follows a status change to/from done
CompletedAfter(row, data) ==
    IF data.status = "absent" THEN row.completed_at
    ELSE IF row.status # "done" /\ data.status = "done" THEN TRUE
    ELSE IF row.status = "done" /\ data.status # "done" THEN FALSE
    ELSE row.completed_at

\* HTTP status of PATCH /tasks/<id> for an authenticated caller
api_update_task_code(task_id, user_id, data) ==
    LET a == api_check_task_access(task_id, user_id, 0)
        row == TaskGet(task_id)
    IN  IF ~a.allowed THEN 403
        ELSE IF data.status = "absent" /\ data.assigned_to = Absent THEN 400
        ELSE IF /\ data.assigned_to \notin {0, Absent}
                /\ MemberFirst(row.project_id, data.assigned_to) = "none"
             THEN 400
        ELSE 200

api_update_task_row(task_id, user_id, data) ==
    LET row == TaskGet(task_id)
    IN  IF api_update_task_code(task_id, user_id, data) # 200 THEN row
        ELSE [SetFields(row, data) EXCEPT
                 !.completed_at = CompletedAfter(row, data)]

\* TaskService.update_task: result code of the ServiceResult
TaskService_update_task_code(task_id, user_id) ==
    IF TaskGet(task_id) = NoTask THEN "not_found"
    ELSE IF ~PermissionService_check_access(TaskGet(task_id).project_id,
                                            user_id).allowed
         THEN "forbidden"
    ELSE "ok"

TaskService_update_task_row(task_id, user_id, data) ==
    IF TaskService_update_task_code(task_id, user_id) # "ok" THEN TaskGet(task_id)
    ELSE SetFields(TaskGet(task_id), data)

\* ------------------------------------------------------------------------
\* Database states: every content of the three tables that the schema
\* (models_legacy.py) admits, with at most MaxMembers membership rows and
\* every task still open (status and completed_at at their column defaults)
\* ------------------------------------------------------------------------
MemberRows(m) == {k \in DOMAIN m : m[k] # "none"}

SchemaOk(po, pm, t) ==
    /\ \A k \in MemberRows(pm) : po[k[1]] # 0
    /\ \A i \in DOMAIN t : t[i] # NoTask => po[t[i].project_id] # 0

Idle == [op |-> "idle"]

NoEntry == -1
NoAdd == [expires |-> NoEntry, store |-> "none"]
\* no PasswordResetToken row of that id (or token) exists
NoReset == [used |-> TRUE, expires_at |-> NoEntry]

\* a thread that is in no call and has made none
IdleThread == [pc |-> "idle", op |-> "none", jti |-> 0, cnow |-> 0, size |-> 0,
               seen |-> {}, todo |-> {}, result |-> "none"]

\* a process that has just started: no token issued, nothing revoked
TokenStart ==
    /\ now = 0
    /\ redis_store = [j \in Jtis |-> NoEntry]
    /\ memory_store = [j \in Jtis |-> NoEntry]
    /\ token_exp = [j \in Jtis |-> NoEntry]
    /\ revoked = {}
    /\ added = [j \in Jtis |-> NoAdd]
    /\ password = 1
    /\ reset_token = [k \in ResetIds |-> NoReset]
    /\ stale = {}
    /\ clock = 0
    /\ account = "active"
    /\ login_attempt = [k \in ClockTimes \X BOOLEAN |-> 0]
    /\ removed = {}
    /\ thread = [t \in Threads |-> IdleThread]

InitAccess ==
    /\ project_owner \in [ProjectIds -> Users \cup {0}]
    /\ project_member \in [ProjectIds \X Users -> Roles \cup {"none"}]
    /\ Cardinality(MemberRows(project_member)) <= MaxMembers
    /\ task \in [TaskIds -> {r \in TaskRows : r.status = "todo" /\ ~r.completed_at}
                            \cup {NoTask}]
    /\ SchemaOk(project_owner, project_member, task)
    /\ last = Idle
    /\ TokenStart
    /\ tz = 0
    /\ has_redis = FALSE
    /\ redis_up = FALSE

UnchangedDb == UNCHANGED <<dbvars, tokenvars>>

ProjectErrs == 0..2
TaskErrs == 0..3

CallCheckProjectAccess(project_id, user_id, err) ==
    /\ last = Idle
    /\ last' = [op |-> "check_project_access", id |-> project_id,
                user |-> user_id, err |-> err,
                ret |-> check_project_access(project_id, user_id, err)]
    /\ UnchangedDb

CallCheckProjectAdmin(project_id, user_id, err) ==
    /\ last = Idle
    /\ last' = [op |-> "check_project_admin", id |-> project_id,
                user |-> user_id, err |-> err,
                ret |-> check_project_admin(project_id, user_id, err)]
    /\ UnchangedDb

CallCheckTaskAccess(task_id, user_id, err) ==
    /\ last = Idle
    /\ last' = [op |-> "check_task_access", id |-> task_id,
                user |-> user_id, err |-> err,
                ret |-> check_task_access(task_id, user_id, err)]
    /\ UnchangedDb

CallApiCheckTaskAccess(task_id, user_id, err) ==
    /\ last = Idle
    /\ last' = [op |-> "api_check_task_access", id |-> task_id,
                user |-> user_id, err |-> err,
                ret |-> api_check_task_access(task_id, user_id, err)]
    /\ UnchangedDb

CallCanModifyTask(task_id, user_id, err) ==
    /\ last = Idle
    /\ last' = [op |-> "can_modify_task", id |-> task_id,
                user |-> user_id, err |-> err,
                ret |-> can_modify_task(task_id, user_id, err)]
    /\ UnchangedDb

\* PATCH /tasks/<task_id> by the authenticated user user_id
api_update_task(task_id, user_id, data) ==
    /\ last = Idle
    /\ task_id \in TaskIds
    /\ task' = [task EXCEPT ![task_id] = api_update_task_row(task_id, user_id, data)]
    /\ last' = [op |-> "api_update_task", id |-> task_id, user |-> user_id,
                data |-> data,
                code |-> api_update_task_code(task_id, user_id, data),
                before |-> task[task_id]]
    /\ UNCHANGED <<project_owner, project_member>>
    /\ UNCHANGED tokenvars

TaskService_update_task(task_id, user_id, data) ==
    /\ last = Idle
    /\ task_id \in TaskIds
    /\ task' = [task EXCEPT ![task_id] =
                    TaskService_update_task_row(task_id, user_id, data)]
    /\ last' = [op |-> "TaskService_update_task", id |-> task_id,
                user |-> user_id, data |-> data,
                code |-> TaskService_update_task_code(task_id, user_id),
                before |-> task[task_id]]
    /\ UNCHANGED <<project_owner, project_member>>
    /\ UNCHANGED tokenvars

\* the id the database gives to the next row of a table
NextId(used, ids) ==
    IF ids \ used = {} THEN 0
    ELSE CHOOSE i \in ids \ used : \A j \in ids \ used : i <= j

ProjectRows == {p \in ProjectIds : project_owner[p] # 0}
TaskRowIds == {t \in TaskIds : task[t] # NoTask}

\* POST /projects/<id>/tasks with a valid title; assigned_to = 0 when absent,
\* status "todo" when absent (CreateTaskSchema: missing='todo')
api_create_task_code(project_id, user_id, assigned_to) ==
    IF ~check_project_access(project_id, user_id, 0).allowed THEN 403
    ELSE IF assigned_to # 0 /\ MemberFirst(project_id, assigned_to) = "none"
         THEN 400
    ELSE 201

api_create_task(project_id, user_id, assigned_to, status) ==
    LET code == api_create_task_code(project_id, user_id, assigned_to)
        id == NextId(TaskRowIds, TaskIds)
    IN  /\ last = Idle
        /\ code = 201 => id # 0
        /\ task' = IF code = 201
                   THEN [task EXCEPT ![id] =
                           [project_id |-> project_id, created_by |-> user_id,
                            assigned_to |-> assigned_to, status |-> status,
                            completed_at |-> FALSE]]
                   ELSE task
        /\ last' = [op |-> "create_task", project_id |-> project_id,
                    user_id |-> user_id, assigned_to |-> assigned_to,
                    code |-> code, task_id |-> IF code = 201 THEN id ELSE 0]
        /\ UNCHANGED <<project_owner, project_member>>
        /\ UNCHANGED tokenvars

\* TaskService.get_task: result code of the ServiceResult
TaskService_get_task_code(task_id, user_id) ==
    IF TaskGet(task_id) = NoTask THEN "not_found"
    ELSE IF ~PermissionService_check_access(TaskGet(task_id).project_id,
                                            user_id).allowed
         THEN "forbidden"
    ELSE "ok"

TaskService_get_task(task_id, user_id) ==
    /\ last = Idle
    /\ last' = [op |-> "TaskService_get_task", id |-> task_id,
                user |-> user_id,
                code |-> TaskService_get_task_code(task_id, user_id)]
    /\ UnchangedDb

\* ProjectService.get_project: the permission check comes before the load
ProjectService_get_project_code(project_id, user_id) ==
    IF ~PermissionService_check_access(project_id, user_id).allowed
    THEN "forbidden"
    ELSE IF ProjectGet(project_id) = 0 THEN "not_found"
    ELSE "ok"

ProjectService_get_project(project_id, user_id) ==
    /\ last = Idle
    /\ last' = [op |-> "ProjectService_get_project", id |-> project_id,
                user |-> user_id,
                code |-> ProjectService_get_project_code(project_id, user_id)]
    /\ UnchangedDb

\* utils/decorators.py require_project_access: HTTP status of the wrapped
\* endpoint, 200 standing for "the endpoint f is called"
require_project_access_code(project_id, user_id) ==
    IF ProjectGet(project_id) = 0 THEN 404
    ELSE IF ProjectGet(project_id) = user_id THEN 200
    ELSE IF MemberFirst(project_id, user_id) # "none" THEN 200
    ELSE 403

require_project_access(project_id, user_id) ==
    /\ last = Idle
    /\ last' = [op |-> "require_project_access", id |-> project_id,
                user |-> user_id,
                code |-> require_project_access_code(project_id, user_id)]
    /\ UnchangedDb

NextAccess ==
    \/ \E p \in CallProjectIds, u \in Users, e \in ProjectErrs :
          CallCheckProjectAccess(p, u, e)
    \/ \E p \in CallProjectIds, u \in Users, e \in ProjectErrs :
          CallCheckProjectAdmin(p, u, e)
    \/ \E t \in CallTaskIds, u \in Users, e \in TaskErrs :
          CallCheckTaskAccess(t, u, e)
    \/ \E t \in CallTaskIds, u \in Users, e \in TaskErrs :
          CallApiCheckTaskAccess(t, u, e)
    \/ \E t \in CallTaskIds, u \in Users, e \in TaskErrs :
          CallCanModifyTask(t, u, e)
    \/ \E t \in TaskIds, u \in Users, d \in UpdateData :
          api_update_task(t, u, d)
    \/ \E t \in TaskIds, u \in Users, d \in UpdateData :
          TaskService_update_task(t, u, d)
    \/ \E p \in CallProjectIds, u \in Users, a \in Users \cup {0},
          s \in Statuses : api_create_task(p, u, a, s)
    \/ \E t \in CallTaskIds, u \in Users : TaskService_get_task(t, u)
    \/ \E p \in CallProjectIds, u \in Users : ProjectService_get_project(p, u)
    \/ \E p \in CallProjectIds, u \in Users : require_project_access(p, u)

SpecAccess == InitAccess /\ [][NextAccess]_vars

\* ------------------------------------------------------------------------
\* core/token_blacklist.py: TokenBlacklist
\* ------------------------------------------------------------------------
\* config.py: JWT_ACCESS_TOKEN_EXPIRES, hours
AccessLifetime == 1
\* config.py: JWT_REFRESH_TOKEN_EXPIRES, 30 days in hours
RefreshLifetime == 720
\* add(): expires_delta defaults to timedelta(hours=24)
DefaultTtl == 24
\* expires_delta=None
NoDelta == -1
\* the explicit expires_delta values callers pass (logout always passes one)
Deltas == 0..MaxTtl

Ttl(expires_delta) ==
    IF expires_delta = NoDelta THEN DefaultTtl ELSE expires_delta

\* the external store drops a key at its expiry by itself
RedisExists(jti) ==
    redis_store[jti] # NoEntry /\ redis_store[jti] > now

\* SETEX rejects an expiry that is not positive ("invalid expire time")
SetexRaises(ttl) == ttl <= 0

\* add(): the write goes to the external store and add() returns there
AddUsesRedis(ttl) == has_redis /\ redis_up /\ ~SetexRaises(ttl)

\* _cleanup_expired(): the map without the entries with expires_at <= now
cleanup_expired(store, t) ==
    [j \in Jtis |-> IF store[j] # NoEntry /\ store[j] <= t THEN NoEntry
                    ELSE store[j]]

\* variant: the entry is written and nothing is cleaned up
add_memory_no_cleanup(store, jti, ttl, t) ==
    [store EXCEPT ![jti] = t + ttl]

\* variant: an entry that exists is left as it is
add_memory_keep_first(store, jti, ttl, t) ==
    cleanup_expired(IF store[jti] # NoEntry THEN store
                    ELSE [store EXCEPT ![jti] = t + ttl], t)

\* add(), in-process branch: write the entry, then clean up
add_memory(store, jti, ttl, t) ==
    cleanup_expired([store EXCEPT ![jti] = t + ttl], t)

\* add(), lines 187-215: what the try block did with a ttl
\*   exc: a statement inside it raised; returned: it reached `return True`
add_try(ttl) ==
    IF has_redis /\ (~redis_up \/ SetexRaises(ttl))
    THEN [exc |-> TRUE, returned |-> FALSE]
    ELSE [exc |-> FALSE, returned |-> has_redis]

\* add(): `except Exception` swallows the error; both exits return True
add_result(ttl) ==
    [exc |-> FALSE, ret |-> TRUE]

\* variant: when the external store is configured but its write fails,
\* nothing is written
add_no_fallback(jti, expires_delta) ==
    LET ttl == Ttl(expires_delta)
    IN  /\ IF AddUsesRedis(ttl)
           THEN /\ redis_store' = [redis_store EXCEPT ![jti] = now + ttl]
                /\ memory_store' = memory_store
           ELSE /\ memory_store' = IF has_redis THEN memory_store
                                   ELSE add_memory(memory_store, jti, ttl, now)
                /\ redis_store' = redis_store
        /\ added' = [added EXCEPT ![jti] =
                        [expires |-> now + ttl,
                         store |-> IF AddUsesRedis(ttl) THEN "redis"
                                   ELSE "memory"]]

\* add(jti, expires_delta) at the current time; always returns True
add(jti, expires_delta) ==
    LET ttl == Ttl(expires_delta)
    IN  /\ IF AddUsesRedis(ttl)
           THEN /\ redis_store' = [redis_store EXCEPT ![jti] = now + ttl]
                /\ memory_store' = memory_store
           ELSE /\ memory_store' = add_memory(memory_store, jti, ttl, now)
                /\ redis_store' = redis_store
        /\ added' = [added EXCEPT ![jti] =
                        [expires |-> now + ttl,
                         store |-> IF AddUsesRedis(ttl) THEN "redis"
                                   ELSE "memory"]]

\* variant: an entry still counts at the instant it expires
MemoryHit_inclusive(expires_at, t) == expires_at >= t

\* is_blacklisted(): `cls._memory_store[jti] > datetime.utcnow()`
MemoryHit(expires_at, t) == expires_at > t

\* is_blacklisted(): the external store answers and the map is not looked at
ReadsRedis == has_redis /\ redis_up

is_blacklisted_ret(store, jti) ==
    IF ReadsRedis THEN RedisExists(jti)
    ELSE store[jti] # NoEntry /\ MemoryHit(store[jti], now)

\* is_blacklisted(): an expired entry that the read finds is deleted
is_blacklisted_evicts(store, jti) ==
    ~ReadsRedis /\ store[jti] # NoEntry /\ ~MemoryHit(store[jti], now)

is_blacklisted_store(store, jti) ==
    IF is_blacklisted_evicts(store, jti) THEN [store EXCEPT ![jti] = NoEntry]
    ELSE store

\* is_blacklisted(), lines 267-276: what the try block did
\*   exc: the client call raised; answered: it reached its `return`
is_blacklisted_try(jti) ==
    IF has_redis /\ ~redis_up
    THEN [exc |-> TRUE, answered |-> FALSE, ret |-> FALSE]
    ELSE IF has_redis
    THEN [exc |-> FALSE, answered |-> TRUE, ret |-> RedisExists(jti)]
    ELSE [exc |-> FALSE, answered |-> FALSE, ret |-> FALSE]

\* variant: an error of the external store counts as "not revoked"
is_blacklisted_error_is_miss(store, jti) ==
    LET r == is_blacklisted_try(jti)
    IN  IF r.exc \/ r.answered
        THEN [exc |-> FALSE, ret |-> r.ret, store |-> "redis"]
        ELSE [exc |-> FALSE, store |-> "memory",
              ret |-> store[jti] # NoEntry /\ MemoryHit(store[jti], now)]

\* is_blacklisted(jti): the whole call; `except Exception: pass` and the
\* RuntimeError caught in _get_redis_client lead on to the in-process map
is_blacklisted(store, jti) ==
    LET r == is_blacklisted_try(jti)
    IN  IF r.answered
        THEN [exc |-> FALSE, ret |-> r.ret, store |-> "redis"]
        ELSE [exc |-> FALSE, store |-> "memory",
              ret |-> store[jti] # NoEntry /\ MemoryHit(store[jti], now)]

\* remove(): the call deletes a record from the store it works on
remove_deletes(jti) ==
    IF ReadsRedis THEN redis_store[jti] # NoEntry
    ELSE memory_store[jti] # NoEntry

\* remove(): True from the external store whenever the call succeeds
remove_ret(jti) ==
    IF ReadsRedis THEN TRUE ELSE memory_store[jti] # NoEntry

\* ------------------------------------------------------------------------
\* api/auth.py and app.py: tokens, @jwt_required, logout
\* ------------------------------------------------------------------------
\* datetime.utcnow().timestamp(): the naive UTC time read as local time
utcnow_timestamp == now - tz

Max0(x) == IF x > 0 THEN x ELSE 0

\* logout(): timedelta(seconds=max(0, exp - datetime.utcnow().timestamp()))
logout_expires_delta(exp) == Max0(exp - utcnow_timestamp)

\* @jwt_required(): expiry first, then the blocklist callback, else the view
jwt_required_outcome(jti) ==
    IF now >= token_exp[jti] THEN "token_expired"
    ELSE IF is_blacklisted_ret(memory_store, jti) THEN "token_revoked"
    ELSE "handler"

\* the in-process map after @jwt_required() ran its checks
jwt_required_store(jti) ==
    IF now >= token_exp[jti] THEN memory_store
    ELSE is_blacklisted_store(memory_store, jti)

InitToken ==
    /\ project_owner = [p \in ProjectIds |-> 0]
    /\ project_member = [k \in ProjectIds \X Users |-> "none"]
    /\ task = [t \in TaskIds |-> NoTask]
    /\ last = Idle
    /\ TokenStart
    /\ tz \in TzOffsets
    /\ has_redis \in BOOLEAN
    /\ redis_up \in BOOLEAN
    /\ redis_up => has_redis

Frame == UNCHANGED <<project_owner, project_member, task, tz, has_redis,
                     password, reset_token, stale, clock, account,
                     login_attempt, thread>>

\* POST /auth/login succeeds and issues an access token with a fresh jti
\* (jtis are handed out in order)
Login(jti) ==
    /\ token_exp[jti] = NoEntry
    /\ \A j \in Jtis : j < jti => token_exp[j] # NoEntry
    /\ token_exp' = [token_exp EXCEPT ![jti] = now + AccessLifetime]
    /\ last' = [op |-> "login", jti |-> jti]
    /\ Frame
    /\ UNCHANGED <<now, redis_up, redis_store, memory_store, revoked, added,
                   removed>>

\* a request that presents the token to a @jwt_required() endpoint
Request(jti) ==
    /\ token_exp[jti] # NoEntry
    /\ memory_store' = jwt_required_store(jti)
    /\ last' = [op |-> "request", jti |-> jti,
                outcome |-> jwt_required_outcome(jti)]
    /\ Frame
    /\ UNCHANGED <<now, redis_up, redis_store, token_exp, revoked, added,
                   removed>>

\* login(): create_refresh_token gives the refresh token a jti of its own;
\* the refresh token that comes with access token jti gets jti + MaxJti
refresh_jti(jti) == jti + MaxJti

\* the blocklist callback for a jti; only the jtis handed to add() are keys
\* of the stores
check_if_token_revoked(jti) ==
    jti \in Jtis /\ is_blacklisted_ret(memory_store, jti)

\* @jwt_required(refresh=True) for the refresh token of the login that
\* issued access token jti
jwt_required_refresh_outcome(jti) ==
    IF now >= token_exp[jti] - AccessLifetime + RefreshLifetime
    THEN "token_expired"
    ELSE IF check_if_token_revoked(refresh_jti(jti)) THEN "token_revoked"
    ELSE "handler"

\* POST /auth/refresh with that refresh token; the account is active.  The
\* access token it returns is not followed further
refresh_code(jti) ==
    IF jwt_required_refresh_outcome(jti) # "handler" THEN 401
    ELSE IF account # "active" THEN 401
    ELSE 200

Refresh(jti) ==
    /\ token_exp[jti] # NoEntry
    /\ last' = [op |-> "refresh", jti |-> jti, code |-> refresh_code(jti)]
    /\ Frame
    /\ UNCHANGED <<now, redis_up, redis_store, memory_store, token_exp,
                   revoked, added, removed>>

\* POST /auth/logout with the token
Logout(jti) ==
    /\ token_exp[jti] # NoEntry
    /\ IF jwt_required_outcome(jti) # "handler"
       THEN /\ memory_store' = jwt_required_store(jti)
            /\ UNCHANGED <<redis_store, revoked, added, removed>>
       ELSE LET ttl == logout_expires_delta(token_exp[jti])
            IN  /\ IF AddUsesRedis(ttl)
                   THEN /\ redis_store' = [redis_store EXCEPT ![jti] = now + ttl]
                        /\ memory_store' = jwt_required_store(jti)
                   ELSE /\ memory_store' =
                              add_memory(jwt_required_store(jti), jti, ttl, now)
                        /\ redis_store' = redis_store
                /\ added' = [added EXCEPT ![jti] =
                                [expires |-> now + ttl,
                                 store |-> IF AddUsesRedis(ttl) THEN "redis"
                                           ELSE "memory"]]
                /\ revoked' = revoked \cup {jti}
                /\ removed' = removed \ {jti}
    /\ last' = [op |-> "logout", jti |-> jti,
                outcome |-> jwt_required_outcome(jti),
                ttl |-> logout_expires_delta(token_exp[jti])]
    /\ Frame
    /\ UNCHANGED <<now, redis_up, token_exp>>

\* TokenBlacklist.add / revoke_token called directly
CallAdd(jti, expires_delta) ==
    /\ add(jti, expires_delta)
    /\ last' = [op |-> "add", jti |-> jti,
                ret |-> add_result(Ttl(expires_delta)).ret,
                exc |-> add_result(Ttl(expires_delta)).exc,
                again |-> added[jti] # NoAdd]
    /\ removed' = removed \ {jti}
    /\ Frame
    /\ UNCHANGED <<now, redis_up, token_exp, revoked>>

\* TokenBlacklist.is_blacklisted called directly
CallIsBlacklisted(jti) ==
    /\ memory_store' = is_blacklisted_store(memory_store, jti)
    /\ last' = [op |-> "is_blacklisted", jti |-> jti,
                ret |-> is_blacklisted(memory_store, jti).ret,
                store |-> is_blacklisted(memory_store, jti).store,
                exc |-> is_blacklisted(memory_store, jti).exc,
                evicted |-> is_blacklisted_evicts(memory_store, jti)]
    /\ Frame
    /\ UNCHANGED <<now, redis_up, redis_store, token_exp, revoked, added,
                   removed>>

\* variant: remove() only looks at the in-process map
CallRemove_memory_only(jti) ==
    /\ memory_store' = [memory_store EXCEPT ![jti] = NoEntry]
    /\ redis_store' = redis_store
    /\ added' = [added EXCEPT ![jti] = NoAdd]
    /\ revoked' = revoked \ {jti}
    /\ removed' = IF memory_store[jti] # NoEntry THEN removed \cup {jti}
                  ELSE removed
    /\ last' = [op |-> "remove", jti |-> jti,
                ret |-> memory_store[jti] # NoEntry,
                store |-> "memory", after |-> added[jti].store,
                deleted |-> memory_store[jti] # NoEntry]
    /\ Frame
    /\ UNCHANGED <<now, redis_up, token_exp>>

\* TokenBlacklist.remove called directly
CallRemove(jti) ==
    /\ IF ReadsRedis
       THEN /\ redis_store' = [redis_store EXCEPT ![jti] = NoEntry]
            /\ memory_store' = memory_store
       ELSE /\ memory_store' = [memory_store EXCEPT ![jti] = NoEntry]
            /\ redis_store' = redis_store
    /\ added' = [added EXCEPT ![jti] = NoAdd]
    /\ revoked' = revoked \ {jti}
    /\ removed' = IF remove_ret(jti) THEN removed \cup {jti} ELSE removed
    /\ last' = [op |-> "remove", jti |-> jti, ret |-> remove_ret(jti),
                store |-> IF ReadsRedis THEN "redis" ELSE "memory",
                after |-> added[jti].store,
                deleted |-> remove_deletes(jti)]
    /\ Frame
    /\ UNCHANGED <<now, redis_up, token_exp>>

\* an hour passes; the external store expires its keys
Tick ==
    /\ now < MaxTime
    /\ now' = now + 1
    /\ redis_store' = [j \in Jtis |->
                          IF redis_store[j] # NoEntry /\ redis_store[j] <= now + 1
                          THEN NoEntry ELSE redis_store[j]]
    /\ last' = [op |-> "tick"]
    /\ Frame
    /\ UNCHANGED <<redis_up, memory_store, token_exp, revoked, added,
                   removed>>

\* the external store becomes unreachable, or reachable again
RedisFlap ==
    /\ has_redis
    /\ redis_up' = ~redis_up
    /\ last' = [op |-> "redis"]
    /\ Frame
    /\ UNCHANGED <<now, redis_store, memory_store, token_exp, revoked, added,
                   removed>>

NextToken ==
    \/ \E j \in Jtis : Login(j)
    \/ \E j \in Jtis : Request(j)
    \/ \E j \in Jtis : Logout(j)
    \/ \E j \in Jtis : Refresh(j)
    \/ \E j \in Jtis, d \in Deltas : CallAdd(j, d)
    \/ \E j \in Jtis : CallIsBlacklisted(j)
    \/ \E j \in Jtis : CallRemove(j)
    \/ Tick
    \/ RedisFlap

SpecToken == InitToken /\ [][NextToken]_vars

\* TokenBlacklist on its own: its three methods called directly, against
\* either backend, while time passes and the external store comes and goes
InitBlacklist ==
    /\ project_owner = [p \in ProjectIds |-> 0]
    /\ project_member = [k \in ProjectIds \X Users |-> "none"]
    /\ task = [t \in TaskIds |-> NoTask]
    /\ last = Idle
    /\ TokenStart
    /\ tz = 0
    /\ has_redis \in BOOLEAN
    /\ redis_up \in BOOLEAN
    /\ redis_up => has_redis

NextBlacklist ==
    \/ \E j \in Jtis, d \in Deltas : CallAdd(j, d)
    \/ \E j \in Jtis : CallIsBlacklisted(j)
    \/ \E j \in Jtis : CallRemove(j)
    \/ Tick
    \/ RedisFlap

SpecBlacklist == InitBlacklist /\ [][NextBlacklist]_vars

\* ------------------------------------------------------------------------
\* core/token_blacklist.py: the in-process paths of TokenBlacklist, one
\* statement of one thread at a time.  No client is found, so every call
\* goes to _memory_store, which the threads share without a lock.
\* ------------------------------------------------------------------------
\* the keys of the dict
Keys(store) == {j \in Jtis : store[j] # NoEntry}

\* the thread's call has ended, by a return or by an exception
Done(t, result) ==
    [IdleThread EXCEPT !.op = thread[t].op, !.jti = thread[t].jti,
                       !.result = result]

\* what a completed _cleanup_expired gives its caller: add() goes on to
\* `return True`, a direct call gets None
CleanupResult(t) == IF thread[t].op = "add" THEN "True" ELSE "None"

ThreadFrame ==
    /\ last' = [op |-> "thread"]
    /\ UNCHANGED <<project_owner, project_member, task, now, tz, has_redis,
                   redis_up, redis_store, token_exp, revoked, password,
                   reset_token, stale, clock, account, login_attempt>>

\* add(): `cls._memory_store[jti] = expires_at`
Thread_add(t, jti, expires_delta) ==
    /\ thread[t].pc = "idle"
    /\ memory_store' = [memory_store EXCEPT ![jti] = now + Ttl(expires_delta)]
    /\ added' = [added EXCEPT ![jti] = [expires |-> now + Ttl(expires_delta),
                                        store |-> "memory"]]
    /\ removed' = removed \ {jti}
    /\ thread' = [thread EXCEPT ![t] =
                    [IdleThread EXCEPT !.pc = "cleanup", !.op = "add",
                                       !.jti = jti]]
    /\ ThreadFrame

\* _cleanup_expired(), called by add() or directly: `now = utcnow()` and the
\* iterator over cls._memory_store.items(), which remembers the dict's size
Thread_cleanup_expired(t) ==
    /\ thread[t].pc \in {"idle", "cleanup"}
    /\ thread' = [thread EXCEPT ![t] =
                    [IdleThread EXCEPT
                        !.pc = "iterate",
                        !.op = IF thread[t].pc = "idle" THEN "cleanup"
                               ELSE thread[t].op,
                        !.jti = IF thread[t].pc = "idle" THEN 0
                                ELSE thread[t].jti,
                        !.cnow = now,
                        !.size = Cardinality(Keys(memory_store))]]
    /\ UNCHANGED <<memory_store, added, removed>>
    /\ ThreadFrame

\* _cleanup_expired(): one step of the list comprehension.  The dict iterator
\* raises RuntimeError when the dict's size is not the one it remembers;
\* past the last key the list is complete
Thread_iterate(t) ==
    LET th == thread[t]
        rest == Keys(memory_store) \ th.seen
        k == CHOOSE x \in rest : \A y \in rest : x <= y
    IN  /\ th.pc = "iterate"
        /\ thread' = [thread EXCEPT ![t] =
              IF Cardinality(Keys(memory_store)) # th.size
              THEN Done(t, "RuntimeError")
              ELSE IF rest = {}
              THEN IF th.todo = {} THEN Done(t, CleanupResult(t))
                   ELSE [th EXCEPT !.pc = "delete", !.seen = {}]
              ELSE [th EXCEPT !.seen = @ \cup {k},
                              !.todo = IF memory_store[k] <= th.cnow
                                       THEN @ \cup {k} ELSE @]]
        /\ UNCHANGED <<memory_store, added, removed>>
        /\ ThreadFrame

\* _cleanup_expired(): `del cls._memory_store[jti]` for the next expired key
Thread_delete(t) ==
    LET th == thread[t]
        k == CHOOSE x \in th.todo : \A y \in th.todo : x <= y
    IN  /\ th.pc = "delete"
        /\ IF memory_store[k] = NoEntry
           THEN /\ thread' = [thread EXCEPT ![t] = Done(t, "KeyError")]
                /\ memory_store' = memory_store
           ELSE /\ thread' = [thread EXCEPT ![t] =
                                IF th.todo = {k} THEN Done(t, CleanupResult(t))
                                ELSE [th EXCEPT !.todo = @ \ {k}]]
                /\ memory_store' = [memory_store EXCEPT ![k] = NoEntry]
        /\ UNCHANGED <<added, removed>>
        /\ ThreadFrame

\* is_blacklisted(): `if jti in cls._memory_store`
Thread_is_blacklisted(t, jti) ==
    /\ thread[t].pc = "idle"
    /\ thread' = [thread EXCEPT ![t] =
                    IF memory_store[jti] = NoEntry
                    THEN [IdleThread EXCEPT !.op = "is_blacklisted",
                                            !.jti = jti, !.result = "False"]
                    ELSE [IdleThread EXCEPT !.op = "is_blacklisted",
                                            !.jti = jti, !.pc = "compare"]]
    /\ UNCHANGED <<memory_store, added, removed>>
    /\ ThreadFrame

\* is_blacklisted(): `if cls._memory_store[jti] > datetime.utcnow()`
Thread_compare(t) ==
    LET th == thread[t]
    IN  /\ th.pc = "compare"
        /\ thread' = [thread EXCEPT ![t] =
              IF memory_store[th.jti] = NoEntry THEN Done(t, "KeyError")
              ELSE IF MemoryHit(memory_store[th.jti], now) THEN Done(t, "True")
              ELSE [th EXCEPT !.pc = "evict"]]
        /\ UNCHANGED <<memory_store, added, removed>>
        /\ ThreadFrame

\* is_blacklisted(): `del cls._memory_store[jti]`, then `return False`
Thread_evict(t) ==
    LET th == thread[t]
    IN  /\ th.pc = "evict"
        /\ IF memory_store[th.jti] = NoEntry
           THEN /\ thread' = [thread EXCEPT ![t] = Done(t, "KeyError")]
                /\ memory_store' = memory_store
           ELSE /\ thread' = [thread EXCEPT ![t] = Done(t, "False")]
                /\ memory_store' = [memory_store EXCEPT ![th.jti] = NoEntry]
        /\ UNCHANGED <<added, removed>>
        /\ ThreadFrame

\* remove(): `if jti in cls._memory_store`
Thread_remove(t, jti) ==
    /\ thread[t].pc = "idle"
    /\ thread' = [thread EXCEPT ![t] =
                    IF memory_store[jti] = NoEntry
                    THEN [IdleThread EXCEPT !.op = "remove", !.jti = jti,
                                            !.result = "False"]
                    ELSE [IdleThread EXCEPT !.op = "remove", !.jti = jti,
                                            !.pc = "remove"]]
    /\ UNCHANGED <<memory_store, added, removed>>
    /\ ThreadFrame

\* remove(): `del cls._memory_store[jti]`, then `return True`
Thread_remove_del(t) ==
    LET th == thread[t]
    IN  /\ th.pc = "remove"
        /\ IF memory_store[th.jti] = NoEntry
           THEN /\ thread' = [thread EXCEPT ![t] = Done(t, "KeyError")]
                /\ UNCHANGED <<memory_store, added, removed>>
           ELSE /\ thread' = [thread EXCEPT ![t] = Done(t, "True")]
                /\ memory_store' = [memory_store EXCEPT ![th.jti] = NoEntry]
                /\ added' = [added EXCEPT ![th.jti] = NoAdd]
                /\ removed' = removed \cup {th.jti}
        /\ ThreadFrame

InitThreads ==
    /\ project_owner = [p \in ProjectIds |-> 0]
    /\ project_member = [k \in ProjectIds \X Users |-> "none"]
    /\ task = [t \in TaskIds |-> NoTask]
    /\ last = Idle
    /\ TokenStart
    /\ tz = 0
    /\ has_redis = FALSE
    /\ redis_up = FALSE

NextThreads ==
    \/ \E t \in Threads, j \in Jtis, d \in Deltas : Thread_add(t, j, d)
    \/ \E t \in Threads : Thread_cleanup_expired(t)
    \/ \E t \in Threads : Thread_iterate(t)
    \/ \E t \in Threads : Thread_delete(t)
    \/ \E t \in Threads, j \in Jtis : Thread_is_blacklisted(t, j)
    \/ \E t \in Threads : Thread_compare(t)
    \/ \E t \in Threads : Thread_evict(t)
    \/ \E t \in Threads, j \in Jtis : Thread_remove(t, j)
    \/ \E t \in Threads : Thread_remove_del(t)
    \/ Tick

SpecThreads == InitThreads /\ [][NextThreads]_vars

\* ------------------------------------------------------------------------
\* api/auth.py: change_password, forgot_password, reset_password
\* ------------------------------------------------------------------------
\* forgot_password(): expires_at = utcnow() + timedelta(hours=1)
ResetLifetime == 1

\* the tokens issued so far
Issued == {j \in Jtis : token_exp[j] # NoEntry}

PasswordFrame ==
    UNCHANGED <<project_owner, project_member, task, now, tz, has_redis,
                redis_up, redis_store, token_exp, revoked, added, clock,
                account, login_attempt, removed, thread>>

\* POST /auth/change-password with the token, the current and a new password
change_password_code(jti, current_password, strong) ==
    IF jwt_required_outcome(jti) # "handler" THEN 401
    ELSE IF current_password # password THEN 401
    ELSE IF ~strong THEN 400
    ELSE 200

change_password(jti, current_password, new_password, strong) ==
    /\ token_exp[jti] # NoEntry
    /\ LET code == change_password_code(jti, current_password, strong)
       IN  /\ password' = IF code = 200 THEN new_password ELSE password
           /\ stale' = IF code = 200 THEN Issued ELSE stale
           /\ last' = [op |-> "change_password", jti |-> jti, code |-> code]
    /\ memory_store' = jwt_required_store(jti)
    /\ reset_token' = reset_token
    /\ PasswordFrame

ResetRows == {k \in ResetIds : reset_token[k] # NoReset}

\* POST /auth/forgot-password for the account's email: the unused rows are
\* marked used and a new row is created
forgot_password ==
    /\ NextId(ResetRows, ResetIds) # 0
    /\ reset_token' =
          [k \in ResetIds |->
              IF k = NextId(ResetRows, ResetIds)
              THEN [used |-> FALSE, expires_at |-> now + ResetLifetime]
              ELSE [reset_token[k] EXCEPT !.used = TRUE]]
    /\ last' = [op |-> "forgot_password", code |-> 200]
    /\ UNCHANGED <<password, stale, memory_store>>
    /\ PasswordFrame

\* AuthService.request_password_reset for the account's email: a new row
AuthService_request_password_reset ==
    /\ NextId(ResetRows, ResetIds) # 0
    /\ reset_token' =
          [reset_token EXCEPT ![NextId(ResetRows, ResetIds)] =
              [used |-> FALSE, expires_at |-> now + ResetLifetime]]
    /\ last' = [op |-> "request_password_reset", code |-> "ok"]
    /\ UNCHANGED <<password, stale, memory_store>>
    /\ PasswordFrame

\* PasswordResetToken.query.filter_by(token=token, used=False).first(); the
\* token of row k is k, and 0 is a token of no row
ResetTokenFirst(token) ==
    IF token \in ResetIds /\ ~reset_token[token].used THEN reset_token[token]
    ELSE NoReset

\* POST /auth/reset-password with a token
reset_password_code(token, strong) ==
    IF ResetTokenFirst(token) = NoReset THEN 400
    ELSE IF ResetTokenFirst(token).expires_at < now THEN 400
    ELSE IF ~strong THEN 400
    ELSE 200

reset_password(token, new_password, strong) ==
    /\ LET code == reset_password_code(token, strong)
       IN  /\ password' = IF code = 200 THEN new_password ELSE password
           /\ reset_token' = IF code = 200
                             THEN [reset_token EXCEPT ![token].used = TRUE]
                             ELSE reset_token
           /\ stale' = IF code = 200 THEN Issued ELSE stale
           /\ last' = [op |-> "reset_password", code |-> code]
    /\ memory_store' = memory_store
    /\ PasswordFrame

InitPassword ==
    /\ project_owner = [p \in ProjectIds |-> 0]
    /\ project_member = [k \in ProjectIds \X Users |-> "none"]
    /\ task = [t \in TaskIds |-> NoTask]
    /\ last = Idle
    /\ TokenStart
    /\ tz = 0
    /\ has_redis = FALSE
    /\ redis_up = FALSE

NextPassword ==
    \/ \E j \in Jtis : Login(j)
    \/ \E j \in Jtis : Request(j)
    \/ \E j \in Jtis, c, n \in Passwords, s \in BOOLEAN :
          change_password(j, c, n, s)
    \/ forgot_password
    \/ AuthService_request_password_reset
    \/ \E k \in ResetIds \cup {0}, s \in BOOLEAN, n \in Passwords :
          reset_password(k, n, s)
    \/ Tick

SpecPassword == InitPassword /\ [][NextPassword]_vars

\* ------------------------------------------------------------------------
\* api/auth.py: check_account_locked, record_login_attempt, login
\* ------------------------------------------------------------------------
lockout_threshold == 5
lockout_duration == 15

RECURSIVE CountRows(_, _, _)
\* the number of rows with the given success flag and a timestamp in S
CountRows(tbl, success, S) ==
    IF S = {} THEN 0
    ELSE LET t == CHOOSE x \in S : TRUE
         IN  tbl[<<t, success>>] + CountRows(tbl, success, S \ {t})

\* LoginAttempt rows with success = False and timestamp > cutoff_time
failed_attempts(tbl, t) ==
    CountRows(tbl, FALSE, {x \in ClockTimes : x > t - lockout_duration})

\* the timestamp of the latest failed attempt (order_by timestamp desc)
last_attempt(tbl) ==
    CHOOSE x \in ClockTimes :
        /\ tbl[<<x, FALSE>>] > 0
        /\ \A y \in ClockTimes : tbl[<<y, FALSE>>] > 0 => y <= x

\* check_account_locked(email) at time t: (is_locked, remaining_minutes)
check_account_locked(tbl, t) ==
    IF failed_attempts(tbl, t) >= lockout_threshold
    THEN [is_locked |-> TRUE,
          remaining_minutes |-> Max0(last_attempt(tbl) + lockout_duration - t)]
    ELSE [is_locked |-> FALSE, remaining_minutes |-> 0]

\* record_login_attempt(email, success): one more row stamped with the time
record_login_attempt(tbl, t, success) ==
    [tbl EXCEPT ![<<t, success>>] = @ + 1]

\* POST /auth/login for the email; password_ok: the password matches
login_code(password_ok) ==
    IF check_account_locked(login_attempt, clock).is_locked THEN 429
    ELSE IF account = "none" \/ ~password_ok THEN 401
    ELSE IF account = "disabled" THEN 403
    ELSE 200

\* the rows of the table
AttemptRows ==
    CountRows(login_attempt, FALSE, ClockTimes)
      + CountRows(login_attempt, TRUE, ClockTimes)

login(password_ok) ==
    LET code == login_code(password_ok)
    IN  /\ code # 429 => AttemptRows < MaxAttempts
        /\ login_attempt' =
              IF code = 429 THEN login_attempt
              ELSE record_login_attempt(login_attempt, clock, code = 200)
        /\ last' = [op |-> "login", code |-> code,
                    remaining_minutes |->
                       check_account_locked(login_attempt, clock)
                          .remaining_minutes]
        /\ UNCHANGED <<clock, account>>
        /\ UNCHANGED <<dbvars, now, tz, has_redis, redis_up, redis_store,
                       memory_store, token_exp, revoked, added, password,
                       reset_token, stale, removed, thread>>

\* time passes
ClockTick ==
    /\ clock + ClockStep <= MaxClock
    /\ clock' = clock + ClockStep
    /\ last' = [op |-> "tick"]
    /\ UNCHANGED <<account, login_attempt>>
    /\ UNCHANGED <<dbvars, now, tz, has_redis, redis_up, redis_store,
                   memory_store, token_exp, revoked, added, password,
                   reset_token, stale, removed, thread>>

InitLogin ==
    /\ project_owner = [p \in ProjectIds |-> 0]
    /\ project_member = [k \in ProjectIds \X Users |-> "none"]
    /\ task = [t \in TaskIds |-> NoTask]
    /\ last = Idle
    /\ now = 0
    /\ redis_store = [j \in Jtis |-> NoEntry]
    /\ memory_store = [j \in Jtis |-> NoEntry]
    /\ token_exp = [j \in Jtis |-> NoEntry]
    /\ revoked = {}
    /\ added = [j \in Jtis |-> NoAdd]
    /\ password = 1
    /\ reset_token = [k \in ResetIds |-> NoReset]
    /\ stale = {}
    /\ tz = 0
    /\ has_redis = FALSE
    /\ redis_up = FALSE
    /\ clock = 0
    /\ account \in {"none", "active", "disabled"}
    /\ login_attempt = [k \in ClockTimes \X BOOLEAN |-> 0]
    /\ removed = {}
    /\ thread = [t \in Threads |-> IdleThread]

NextLogin ==
    \/ \E ok \in BOOLEAN : login(ok)
    \/ ClockTick

SpecLogin == InitLogin /\ [][NextLogin]_vars

\* ------------------------------------------------------------------------
\* services/project_service.py: ProjectService
\* ------------------------------------------------------------------------
\* ProjectPermissionService.check_admin_access (can_modify is the same test)
check_admin_access(project_id, user_id) ==
    LET r == PermissionService_check_access(project_id, user_id)
    IN  r.allowed /\ r.role \in {"owner", "admin"}

\* ProjectService.create_project(user_id, name): a row with owner_id = user_id
ProjectService_create_project(user_id) ==
    /\ NextId(ProjectRows, ProjectIds) # 0
    /\ project_owner' =
          [project_owner EXCEPT ![NextId(ProjectRows, ProjectIds)] = user_id]
    /\ last' = [op |-> "create_project", code |-> "ok"]
    /\ UNCHANGED <<project_member, task>>
    /\ UNCHANGED tokenvars

\* ProjectService.update_project: name, description, status and dates only
ProjectService_update_project(project_id, user_id) ==
    /\ last' = [op |-> "update_project",
                code |-> IF check_admin_access(project_id, user_id)
                         THEN "ok" ELSE "forbidden"]
    /\ UNCHANGED <<project_owner, project_member, task>>
    /\ UNCHANGED tokenvars

\* variant: the owner is not refused
ProjectService_add_member_code_no_owner_check(project_id, user_id, member) ==
    IF ~check_admin_access(project_id, user_id) THEN "forbidden"
    ELSE IF member = 0 THEN "not_found"
    ELSE IF MemberFirst(project_id, member) # "none" THEN "conflict_member"
    ELSE "ok"

\* ProjectService.add_member; member = 0 stands for an email of no user;
\* the two conflicts differ in their message
ProjectService_add_member_code(project_id, user_id, member) ==
    IF ~check_admin_access(project_id, user_id) THEN "forbidden"
    ELSE IF member = 0 THEN "not_found"
    ELSE IF MemberFirst(project_id, member) # "none" THEN "conflict_member"
    ELSE IF ProjectGet(project_id) = member THEN "conflict_owner"
    ELSE "ok"

ProjectService_add_member(project_id, user_id, member, role) ==
    /\ LET code == ProjectService_add_member_code(project_id, user_id, member)
       IN  /\ project_member' =
                 IF code = "ok"
                 THEN [project_member EXCEPT ![<<project_id, member>>] = role]
                 ELSE project_member
           /\ last' = [op |-> "add_member", code |-> code]
    /\ UNCHANGED <<project_owner, task>>
    /\ UNCHANGED tokenvars

ProjectService_remove_member_code(project_id, user_id, member_id) ==
    IF ~check_admin_access(project_id, user_id) THEN "forbidden"
    ELSE IF ProjectGet(project_id) = member_id THEN "validation_error"
    ELSE IF MemberFirst(project_id, member_id) = "none" THEN "not_found"
    ELSE "ok"

ProjectService_remove_member(project_id, user_id, member_id) ==
    /\ LET code == ProjectService_remove_member_code(project_id, user_id,
                                                     member_id)
       IN  /\ project_member' =
                 IF code = "ok"
                 THEN [project_member EXCEPT
                          ![<<project_id, member_id>>] = "none"]
                 ELSE project_member
           /\ last' = [op |-> "remove_member", code |-> code]
    /\ UNCHANGED <<project_owner, task>>
    /\ UNCHANGED tokenvars

\* an empty database
InitProject ==
    /\ project_owner = [p \in ProjectIds |-> 0]
    /\ project_member = [k \in ProjectIds \X Users |-> "none"]
    /\ task = [t \in TaskIds |-> NoTask]
    /\ last = Idle
    /\ TokenStart
    /\ tz = 0
    /\ has_redis = FALSE
    /\ redis_up = FALSE

NextProject ==
    \/ \E u \in Users : ProjectService_create_project(u)
    \/ \E p \in CallProjectIds, u \in Users :
          ProjectService_update_project(p, u)
    \/ \E p \in CallProjectIds, u \in Users, m \in Users \cup {0},
          r \in Roles : ProjectService_add_member(p, u, m, r)
    \/ \E p \in CallProjectIds, u, m \in Users :
          ProjectService_remove_member(p, u, m)

SpecProject == InitProject /\ [][NextProject]_vars

\* ------------------------------------------------------------------------
\* Projects, members and tasks over time: the membership operations of
\* ProjectService and the task handlers of api/tasks.py, from an empty
\* database
\* ------------------------------------------------------------------------
\* the response has been sent and the next request is awaited
NextRequest ==
    /\ last # Idle
    /\ last' = Idle
    /\ UnchangedDb

NextTasks ==
    \/ \E u \in Users : ProjectService_create_project(u)
    \/ \E p \in CallProjectIds, u \in Users, m \in Users \cup {0},
          r \in Roles : ProjectService_add_member(p, u, m, r)
    \/ \E p \in CallProjectIds, u, m \in Users :
          ProjectService_remove_member(p, u, m)
    \/ \E p \in CallProjectIds, u \in Users, a \in Users \cup {0},
          s \in Statuses : api_create_task(p, u, a, s)
    \/ \E t \in TaskIds, u \in Users, d \in UpdateData :
          api_update_task(t, u, d)
    \/ NextRequest

SpecTasks == InitProject /\ [][NextTasks]_vars

\* ------------------------------------------------------------------------
\* Properties of the permission checks
\* ------------------------------------------------------------------------
Deny3 == Ret3(FALSE, 0, "none")
Deny2 == Ret2(FALSE, 0)

\* the datastore does raise during the call: the failing query is executed
RaisesInProject(project_id, user_id, err) ==
    \/ err = 1
    \/ err = 2 /\ ProjectGet(project_id) \notin {0, user_id}

RaisesInCall(op, id, user_id, err) ==
    IF op \in {"check_project_access", "check_project_admin"}
    THEN RaisesInProject(id, user_id, err)
    ELSE \/ err = 1
         \/ /\ err > 1
            /\ TaskGet(id) # NoTask
            /\ op = "can_modify_task" =>
                  user_id \notin {TaskGet(id).created_by, TaskGet(id).assigned_to}
            /\ RaisesInProject(TaskGet(id).project_id, user_id, err - 1)

\* C1: for an existing project the owner is resolved to (True, P, "owner"),
\* with or without a ProjectMember row of the owner, whatever that row's role
C1_OwnerWins ==
    (/\ last.op = "check_project_access"
     /\ last.err = 0
     /\ ProjectGet(last.id) # 0
     /\ ProjectGet(last.id) = last.user)
    => last.ret = Ret3(TRUE, last.id, "owner")

C1_Witness ==
    /\ last.op = "check_project_access"
    /\ last.err = 0
    /\ ProjectGet(last.id) = last.user
    /\ MemberFirst(last.id, last.user) = "member"
    /\ last.ret = Ret3(TRUE, last.id, "owner")

\* C2: a non-owner with a ProjectMember row of role R is resolved to
\* (True, P, R)
C2_MemberRole ==
    (/\ last.op = "check_project_access"
     /\ last.err = 0
     /\ ProjectGet(last.id) \notin {0, last.user}
     /\ MemberFirst(last.id, last.user) # "none")
    => last.ret = Ret3(TRUE, last.id, MemberFirst(last.id, last.user))

C2_Witness ==
    /\ last.op = "check_project_access"
    /\ last.err = 0
    /\ ProjectGet(last.id) \notin {0, last.user}
    /\ MemberFirst(last.id, last.user) = "admin"
    /\ last.ret = Ret3(TRUE, last.id, "admin")

\* C3: a user who is neither owner nor member gets exactly
\* (False, None, None), the very value returned for a project id that does
\* not exist
C3_DenialIsUniform ==
    (/\ last.op = "check_project_access"
     /\ last.err = 0
     /\ \/ ProjectGet(last.id) = 0
        \/ /\ ProjectGet(last.id) # last.user
           /\ MemberFirst(last.id, last.user) = "none")
    => last.ret = Deny3

C3_Witness ==
    /\ last.op = "check_project_access"
    /\ last.err = 0
    /\ ProjectGet(last.id) \notin {0, last.user}
    /\ MemberFirst(last.id, last.user) = "none"
    /\ \E u \in Users : MemberFirst(last.id, u) # "none"
    /\ last.ret = Deny3

\* C4: check_project_admin is True exactly when the role check_project_access
\* resolves is "owner" or "admin"
C4_AdminIffOwnerOrAdmin ==
    (last.op = "check_project_admin" /\ last.err = 0)
    => last.ret = RetB(check_project_access(last.id, last.user, 0).role
                         \in {"owner", "admin"})

C4_Witness ==
    /\ last.op = "check_project_admin"
    /\ last.err = 0
    /\ check_project_access(last.id, last.user, 0).role = "member"
    /\ last.ret = RetB(FALSE)

\* C5: for an existing task both check_task_access functions return the
\* allowed flag and the role of check_project_access on the task's project;
\* for a task id that does not exist they return (False, None, None)
C5_TaskAccessIsProjectAccess ==
    (last.op \in {"check_task_access", "api_check_task_access"} /\ last.err = 0)
    => IF TaskGet(last.id) = NoTask THEN last.ret = Deny3
       ELSE LET p == check_project_access(TaskGet(last.id).project_id,
                                          last.user, 0)
            IN  /\ ~last.ret.exc
                /\ last.ret.allowed = p.allowed
                /\ last.ret.role = p.role

C5_Witness ==
    /\ last.op = "check_task_access"
    /\ last.err = 0
    /\ TaskGet(last.id) # NoTask
    /\ TaskGet(last.id).created_by = last.user
    /\ last.ret = Deny3

\* C6: can_modify_task allows exactly the task's creator, its assignee and
\* the admins and the owner of the task's project; it denies a missing task
C6_CanModifyIff ==
    (last.op = "can_modify_task" /\ last.err = 0)
    => IF TaskGet(last.id) = NoTask THEN last.ret = Deny2
       ELSE LET t == TaskGet(last.id)
                may == \/ last.user = t.created_by
                       \/ last.user = t.assigned_to
                       \/ ProjectGet(t.project_id) = last.user
                       \/ MemberFirst(t.project_id, last.user) = "admin"
            IN  last.ret = IF may THEN Ret2(TRUE, last.id) ELSE Deny2

C6_Witness ==
    /\ last.op = "can_modify_task"
    /\ last.err = 0
    /\ TaskGet(last.id) # NoTask
    /\ last.user \notin {TaskGet(last.id).created_by, TaskGet(last.id).assigned_to}
    /\ MemberFirst(TaskGet(last.id).project_id, last.user) = "member"
    /\ last.ret = Deny2

\* C7: the task update operations change a task only for its creator, its
\* assignee, or an admin or the owner of its project
C7_UpdateOnlyByStakeholder ==
    (/\ last.op \in {"api_update_task", "TaskService_update_task"}
     /\ task[last.id] # last.before)
    => \/ last.user = last.before.created_by
       \/ last.user = last.before.assigned_to
       \/ ProjectGet(last.before.project_id) = last.user
       \/ MemberFirst(last.before.project_id, last.user) = "admin"

\* C8: a datastore error inside any of the permission checks is not
\* propagated and yields the denial value
C8_FailClosed ==
    (/\ last.op \in {"check_project_access", "check_project_admin",
                     "check_task_access", "can_modify_task"}
     /\ RaisesInCall(last.op, last.id, last.user, last.err))
    => /\ ~last.ret.exc
       /\ last.ret = CASE last.op = "check_project_admin" -> RetB(FALSE)
                       [] last.op = "can_modify_task" -> Deny2
                       [] OTHER -> Deny3

C8_Witness ==
    /\ last.op = "can_modify_task"
    /\ last.err = 3
    /\ RaisesInCall(last.op, last.id, last.user, last.err)
    /\ MemberFirst(TaskGet(last.id).project_id, last.user) = "admin"
    /\ last.ret = Deny2

\* ------------------------------------------------------------------------
\* Properties of token revocation
\* ------------------------------------------------------------------------
\* C9: once logout succeeded with a token, every request that presents the
\* token before its expiry is rejected as revoked
C9_LoggedOutTokenRejected ==
    (/\ last.op = "request"
     /\ last.jti \in revoked
     /\ now < token_exp[last.jti])
    => last.outcome = "token_revoked"

\* C10: served by the in-process map, is_blacklisted is True before the
\* expiry of the latest add and False from the expiry on, and the read that
\* finds the expired entry deletes it
C10_MemoryExpiry ==
    (/\ last.op = "is_blacklisted"
     /\ last.store = "memory"
     /\ added[last.jti].store = "memory")
    => /\ last.ret = (now < added[last.jti].expires)
       /\ ~last.ret => memory_store[last.jti] = NoEntry
       /\ last.evicted => ~last.ret

C10_Witness ==
    /\ last.op = "is_blacklisted"
    /\ last.store = "memory"
    /\ added[last.jti].store = "memory"
    /\ now = added[last.jti].expires
    /\ added[last.jti].expires > 0
    /\ last.evicted
    /\ ~last.ret
    /\ memory_store[last.jti] = NoEntry

\* C11: a revocation that add() recorded in the in-process map is reported by
\* is_blacklisted until its expiry, whichever store answers the read
C11_MemoryFallback ==
    (/\ last.op = "is_blacklisted"
     /\ added[last.jti].store = "memory"
     /\ now < added[last.jti].expires)
    => last.ret

\* C12 as stated: add returns True, does not raise, and leaves the jti
\* recorded in at least one store, whatever the ttl
C12_AddAlwaysRecords ==
    last.op = "add"
    => /\ last.ret /\ ~last.exc
       /\ \/ redis_store[last.jti] # NoEntry
          \/ memory_store[last.jti] # NoEntry

\* C12 amended: add returns True, does not raise, and leaves the jti
\* recorded, with its expiry, in the store it chose, provided that expiry
\* still lies ahead when add returns
C12_AddRecordsLiveEntry ==
    (last.op = "add" /\ now < added[last.jti].expires)
    => /\ last.ret /\ ~last.exc
       /\ \/ /\ added[last.jti].store = "redis"
             /\ redis_store[last.jti] = added[last.jti].expires
          \/ /\ added[last.jti].store = "memory"
             /\ memory_store[last.jti] = added[last.jti].expires

\* add() ran while the configured external store was failing, and the
\* revocation is in the in-process map
C12_Witness ==
    /\ last.op = "add"
    /\ has_redis /\ ~redis_up
    /\ last.ret /\ ~last.exc
    /\ now < added[last.jti].expires
    /\ memory_store[last.jti] = added[last.jti].expires
    /\ redis_store[last.jti] = NoEntry

\* C13: is_blacklisted does not raise, and when no client is found or the
\* client call throws, its result is the one the in-process map gives
C13_ReadNeverRaises ==
    [][\A j \in Jtis :
         (last'.op = "is_blacklisted" /\ last'.jti = j)
         => /\ ~last'.exc
            /\ ~(has_redis /\ redis_up)
                 => /\ last'.store = "memory"
                    /\ last'.ret = (/\ memory_store[j] # NoEntry
                                    /\ memory_store[j] > now)]_vars

\* the client call threw during a read of a jti that the map holds
C13_Witness ==
    /\ last.op = "is_blacklisted"
    /\ has_redis /\ ~redis_up
    /\ last.store = "memory"
    /\ last.ret
    /\ ~last.exc
    /\ memory_store[last.jti] # NoEntry

\* C14 as stated: a second add of a jti returns True without raising, leaves
\* is_blacklisted True and leaves exactly one record of the jti
C14_AddTwice ==
    (last.op = "add" /\ last.again)
    => /\ last.ret /\ ~last.exc
       /\ is_blacklisted(memory_store, last.jti).ret
       /\ (redis_store[last.jti] # NoEntry) # (memory_store[last.jti] # NoEntry)

\* C14 amended: a second add of a jti returns True without raising; while its
\* expiry lies ahead, is_blacklisted is True and the backend that served the
\* call holds the jti once, with the second call's expiry
C14_AddTwiceSameBackend ==
    (last.op = "add" /\ last.again)
    => /\ last.ret /\ ~last.exc
       /\ now < added[last.jti].expires
            => /\ is_blacklisted(memory_store, last.jti).ret
               /\ added[last.jti].store = "redis"
                    => redis_store[last.jti] = added[last.jti].expires
               /\ added[last.jti].store = "memory"
                    => memory_store[last.jti] = added[last.jti].expires

\* a second add to the in-process map, an hour after the first
C14_Witness ==
    /\ last.op = "add" /\ last.again
    /\ added[last.jti].store = "memory"
    /\ now > 0
    /\ now < added[last.jti].expires
    /\ memory_store[last.jti] = added[last.jti].expires
    /\ is_blacklisted(memory_store, last.jti).ret

\* C15: after add and then remove of a jti, both served by the backend that
\* also serves the read, is_blacklisted is False
C15_RemoveUndoesAdd ==
    (last.op = "remove" /\ last.after = last.store)
    => ~is_blacklisted(memory_store, last.jti).ret

\* remove() deleted a live record from the backend that had taken the add
C15_Witness ==
    /\ last.op = "remove"
    /\ last.after = last.store
    /\ last.ret
    /\ ~is_blacklisted(memory_store, last.jti).ret
    /\ redis_store[last.jti] = NoEntry
    /\ memory_store[last.jti] = NoEntry

\* C16: the ttl that logout hands to revoke_token is at least the token's
\* remaining lifetime, so the record does not expire before the token
C16_TtlCoversLifetime ==
    (last.op = "logout" /\ last.outcome = "handler")
    => /\ last.ttl >= token_exp[last.jti] - now
       /\ added[last.jti].expires >= token_exp[last.jti]

\* C17: a token issued before a successful password change does not reach a
\* handler any more
C17_OldTokensInvalid ==
    (last.op = "request" /\ last.jti \in stale)
    => last.outcome # "handler"

\* C26: after remove(jti) returned True and until the next add(jti),
\* is_blacklisted(jti) is False, however the external store's availability
\* changed between the calls
C26_RemovedStaysRemoved ==
    (last.op = "is_blacklisted" /\ last.jti \in removed) => ~last.ret

\* C29: remove(jti) returns True exactly when it deleted a record of the jti,
\* and False when there was none, on either backend
C29_RemoveReportsDeletion ==
    last.op = "remove" => last.ret = last.deleted

\* C28: once logout succeeded with an access token, the refresh token of the
\* same login gets no new access token from POST /auth/refresh
C28_RefreshDiesWithLogout ==
    (last.op = "refresh" /\ last.jti \in revoked) => last.code # 200

\* the in-process map holds no entry whose expiry has passed
NoExpiredEntry ==
    \A j \in Jtis : memory_store[j] = NoEntry \/ memory_store[j] > now

C24_NoCallRaises ==
    \A t \in Threads : thread[t].result \notin {"KeyError", "RuntimeError"}

\* C25: once every call has returned, a jti that add() wrote with a ttl > 0
\* and that was not removed since is in the map until its expiry, whatever
\* evictions ran alongside the add
C25_EvictionSparesNewEntry ==
    \A j \in Jtis :
        (/\ \A t \in Threads : thread[t].pc = "idle"
         /\ C24_NoCallRaises
         /\ added[j] # NoAdd
         /\ now < added[j].expires)
        => is_blacklisted(memory_store, j).ret

\* ------------------------------------------------------------------------
\* Properties of project membership and task creation
\* ------------------------------------------------------------------------
\* C18: no ProjectMember row names the owner of its project
C18_OwnerHasNoMemberRow ==
    \A k \in MemberRows(project_member) : project_owner[k[1]] # k[2]

\* add_member refused the owner of a project that has a member
C18_Witness ==
    /\ last.op = "add_member"
    /\ last.code = "conflict_owner"
    /\ MemberRows(project_member) # {}

\* C19: a user with access to a project who creates a task assigned to the
\* project's owner gets 201 and a task whose assignee is the owner
C19_AssignToOwner ==
    (/\ last.op = "create_task"
     /\ ProjectGet(last.project_id) # 0
     /\ last.assigned_to = ProjectGet(last.project_id)
     /\ check_project_access(last.project_id, last.user_id, 0).allowed)
    => /\ last.code = 201
       /\ task[last.task_id].assigned_to = last.assigned_to

\* C27: whoever can_modify_task allows for a task, check_task_access allows
\* too
C27_ModifyImpliesView ==
    \A t \in TaskIds, u \in Users :
        can_modify_task(t, u, 0).allowed => check_task_access(t, u, 0).allowed

\* C30: every task has completed_at set exactly when its status is "done"
C30_CompletedIffDone ==
    \A t \in TaskRowIds : task[t].completed_at = (task[t].status = "done")

\* ------------------------------------------------------------------------
\* Properties of the account lockout
\* ------------------------------------------------------------------------
\* a failed attempt at time t was the fifth (or a later one) within 15
\* minutes, and 15 minutes have not passed since
FifthFailureAt(t) ==
    /\ t <= clock
    /\ login_attempt[<<t, FALSE>>] > 0
    /\ CountRows(login_attempt, FALSE,
                 {x \in ClockTimes : x > t - lockout_duration /\ x <= t})
          >= lockout_threshold
    /\ clock < t + lockout_duration

\* C20: from the fifth failed attempt within 15 minutes until 15 minutes
\* after it, every login attempt for the email is answered 429
C20_LockedFor15Minutes ==
    [][(last'.op = "login" /\ \E t \in ClockTimes : FifthFailureAt(t))
         => last'.code = 429]_vars

\* ------------------------------------------------------------------------
\* Properties of the callers of the permission checks
\* ------------------------------------------------------------------------
\* the operations that answer a caller after a project or task access check
GatedOps == {"api_update_task", "TaskService_update_task", "create_task",
             "TaskService_get_task", "ProjectService_get_project",
             "require_project_access"}

\* the outcome an operation gives to a caller without access
Denial(op) ==
    IF op \in {"api_update_task", "create_task", "require_project_access"}
    THEN 403 ELSE "forbidden"

\* the project or task the call names does not exist
ResourceMissing ==
    CASE last.op \in {"api_update_task", "TaskService_update_task",
                      "TaskService_get_task"} -> TaskGet(last.id) = NoTask
      [] last.op = "create_task" -> ProjectGet(last.project_id) = 0
      [] OTHER -> ProjectGet(last.id) = 0

\* C21: an operation gated by project or task access answers a call that
\* names a missing resource with the very outcome it gives to a caller
\* without access to an existing one
C21_MissingLooksLikeNoAccess ==
    (last.op \in GatedOps /\ ResourceMissing)
    => last.code = Denial(last.op)

\* ------------------------------------------------------------------------
\* Properties of the password reset
\* ------------------------------------------------------------------------
\* the rows a reset can still be made with: unused and not expired
ValidResetTokens ==
    {k \in ResetRows : ~reset_token[k].used /\ reset_token[k].expires_at >= now}

\* C22: whatever reset requests were made, the account has at most one
\* password-reset token that is unused and unexpired
C22_OneValidResetToken ==
    Cardinality(ValidResetTokens) <= 1

====
